---- MODULE Spec2Model ----
(***************************************************************************)
(* One run of updateSlackGroup (src/app.js): the on-call query, the        *)
(* notification post, and updateGroupMembers with its membership snapshots *)
(* and per-name directory lookups.  Every action is one awaited HTTP call  *)
(* together with its response and the code that runs up to the next await. *)
(* The responses of the two REST collaborators are the model's inputs.     *)
(***************************************************************************)
EXTENDS Naturals, Sequences, FiniteSets

\* ------------------------------------------------------------------ bounds
MaxRecords == 2      \* records in one on-call payload
MaxDir == 2          \* entries in one users.list response
MaxMembers == 2      \* ids in one usergroups.users.list response

\* ------------------------------------------------------------ input values
UserIds == {"P1", "P2"}            \* on-call provider user ids
Names == {"Alice", "Bob"}          \* display names / directory name fields
ScheduleIds == {"S1", "S2"}
SkipChoices == {{}, {"S1"}}        \* values of config.skipSchedules
SlackIds == {"U1", "U2"}           \* directory identifiers
AxiosErrors == {"Network Error", "Request failed with status code 500"}
NULL == "null"
NoName == "undefined"
OkFlags == {"true", "false"}       \* data.ok of a response

SeqsUpTo(S, n) == UNION {[1..k -> S] : k \in 0..n}

\* one element of response.data.oncalls; user / schedule may be absent
OnCallRecords ==
  { r \in [hasUser : BOOLEAN, uid : UserIds \cup {NoName},
           summary : Names \cup {NoName},
           hasSchedule : BOOLEAN, sid : ScheduleIds \cup {NoName}] :
      /\ (r.hasUser => r.uid \in UserIds /\ r.summary \in Names)
      /\ (~r.hasUser => r.uid = NoName /\ r.summary = NoName)
      /\ (r.hasSchedule => r.sid \in ScheduleIds)
      /\ (~r.hasSchedule => r.sid = NoName) }

Payloads == SeqsUpTo(OnCallRecords, MaxRecords)

\* one element of response.data.members of users.list
DirectoryMembers ==
  [id : SlackIds, real_name : Names, name : Names, profile_real_name : Names]

Directories == SeqsUpTo(DirectoryMembers, MaxDir)

GroupLists == SeqsUpTo(SlackIds, MaxMembers)

\* --------------------------------------------------------- getOnCallUsers
\* the test of line 26
UsableNoSkipCheck(oncall, skip) == oncall.hasUser /\ oncall.hasSchedule

Usable(oncall, skip) ==
  oncall.hasUser /\ oncall.hasSchedule /\ ~(oncall.sid \in skip)

HasKey(m, k) == \E i \in 1..Len(m) : m[i].key = k

\* Map.prototype.set: a new key is appended, an existing key keeps its
\* position and takes the new value
MapSetKeepFirst(m, k, v) ==
  IF HasKey(m, k) THEN m ELSE Append(m, [key |-> k, value |-> v])

MapSet(m, k, v) ==
  IF HasKey(m, k)
  THEN [i \in 1..Len(m) |-> IF m[i].key = k THEN [key |-> k, value |-> v] ELSE m[i]]
  ELSE Append(m, [key |-> k, value |-> v])

\* the forEach of lines 25-29, applied to the first n records
RECURSIVE UniqueUsers(_, _, _)
UniqueUsers(payload, skip, n) ==
  IF n = 0 THEN <<>>
  ELSE LET m == UniqueUsers(payload, skip, n - 1)
           oncall == payload[n]
       IN IF Usable(oncall, skip) THEN MapSet(m, oncall.uid, oncall.summary) ELSE m

\* Array.from(uniqueUsers.values())
MapValues(m) == [i \in 1..Len(m) |-> m[i].value]

\* --------------------------------------------------- getSlackUserIdByName
MatchesNoProfile(member, n) == member.real_name = n \/ member.name = n

\* the predicate of lines 90-94
Matches(member, n) ==
  member.real_name = n \/ member.name = n \/ member.profile_real_name = n

RECURSIVE FindLast(_, _)
FindLast(ms, n) ==
  IF ms = <<>> THEN NULL
  ELSE IF Matches(ms[Len(ms)], n) THEN ms[Len(ms)].id
       ELSE FindLast(SubSeq(ms, 1, Len(ms) - 1), n)

\* Array.prototype.find, then `user ? user.id : null` (lines 90-96)
RECURSIVE Find(_, _)
Find(ms, n) ==
  IF ms = <<>> THEN NULL
  ELSE IF Matches(Head(ms), n) THEN Head(ms).id ELSE Find(Tail(ms), n)

\* what getSlackUserIdByName(n) returns after a users.list response of kind
\* `status`: "fail" (the call rejected), "notok" (ok:false, line 87) or "ok"
GetSlackUserIdByName(status, dir, n) ==
  IF status = "ok" THEN Find(dir, n) ELSE NULL

\* ------------------------------------------------------ updateGroupMembers
\* slackUserIds.join(','): the string as its tokens
JoinNoSeparator(ids) == ids

RECURSIVE Join(_)
Join(ids) ==
  IF Len(ids) <= 1 THEN ids ELSE <<Head(ids), ",">> \o Join(Tail(ids))

\* lines 115-120: `if (slackId)` pushes a found id; null is dropped
PushAlways(ids, slackId) == Append(ids, slackId)

Push(ids, slackId) == IF slackId # NULL THEN Append(ids, slackId) ELSE ids

\* the test of line 123
NothingResolvedNever(ids) == FALSE

NothingResolved(ids) == Len(ids) = 0

\* the test of line 154
HasUsersAlways(us) == TRUE

HasUsers(us) == Len(us) > 0

\* ------------------------------------------------------------------ state
VARIABLES
  pc,            \* the await the run is suspended at, or "done"
  skipSchedules, \* config.skipSchedules
  oncalls,       \* getOnCallUsers: response.data.oncalls of the latest query
  uniqueUsers,   \* getOnCallUsers: the Map of line 24
  users,         \* updateSlackGroup: the list getOnCallUsers returned
  stage,         \* which getCurrentGroupMembers call is running: 1, 5 or 0
  groupIds,      \* getCurrentGroupMembers: ids still to look up
  userNames,     \* getCurrentGroupMembers: userNames
  idx,           \* updateGroupMembers: position of the for loop of line 113
  name,          \* getSlackUserIdByName: its parameter in the latest call
  members,       \* getSlackUserIdByName: response.data.members, in a call of its own
  slackId,       \* what the latest getSlackUserIdByName call returned
  slackUserIds,  \* updateGroupMembers: slackUserIds
  lookups,       \* history: each getSlackUserIdByName call, its response kind and result
  calls,         \* history: the HTTP calls issued, in order
  postOk,        \* history: data.ok of the chat.postMessage response
  updateOk,      \* history: data.ok of the usergroups.users.update response
  failures,      \* history: the steps in which a call failed
  ugm,           \* updateGroupMembers: "none", "running", "returned" or "thrown"
  error,         \* the message the catch of line 174 logged
  log,           \* the outcome lines written to the console
  outcome        \* updateSlackGroup's promise: "pending", "resolved" or "rejected"

vars == <<pc, skipSchedules, oncalls, uniqueUsers, users, stage, groupIds,
          userNames, idx, name, members, slackId, slackUserIds, lookups, calls,
          postOk, updateOk, failures, ugm, error, log, outcome>>

Call(api, arg) == [api |-> api, arg |-> arg]

Init ==
  /\ pc = "start"
  /\ skipSchedules \in SkipChoices
  /\ oncalls = <<>>
  /\ uniqueUsers = <<>>
  /\ users = <<>>
  /\ stage = 0
  /\ groupIds = <<>>
  /\ userNames = <<>>
  /\ idx = 0
  /\ name = NoName
  /\ members = <<>>
  /\ slackId = NULL
  /\ slackUserIds = <<>>
  /\ lookups = <<>>
  /\ calls = <<>>
  /\ postOk = "none"
  /\ updateOk = "none"
  /\ failures = {}
  /\ ugm = "none"
  /\ error = <<>>
  /\ log = {}
  /\ outcome = "pending"

\* --------------------------------------------------------- updateSlackGroup
\* the catch of lines 174-176: the error is logged, the promise resolves
TopCatchRethrow(msg) ==
  /\ pc' = "done"
  /\ outcome' = "rejected"
  /\ error' = msg
  /\ UNCHANGED log

TopCatch(msg) ==
  /\ pc' = "done"
  /\ outcome' = "resolved"
  /\ error' = <<"Failed to update Slack group">> \o msg
  /\ log' = log \cup {"Failed to update Slack group"}

\* updateGroupMembers returns (line 125 or the end of the try block), then
\* line 170 and the end of updateSlackGroup
Finish(line) ==
  /\ ugm' = "returned"
  /\ pc' = "done"
  /\ outcome' = "resolved"
  /\ log' = log \cup {line, "Slack user group update complete"}

\* lines 123-128, once the loop of line 113 is over
AfterLoop(ids) ==
  IF NothingResolved(ids)
  THEN Finish("No valid Slack user IDs found, skipping update")
  ELSE pc' = "update" /\ UNCHANGED <<ugm, log, outcome>>

\* getOnCallUsers rejects (lines 34-36): the call failed in transport or
\* with a non-2xx status
QueryFail ==
  /\ pc = "start"
  /\ \E e \in AxiosErrors : TopCatch(<<"Failed to get on-call users", e>>)
  /\ calls' = Append(calls, Call("oncalls", <<>>))
  /\ failures' = failures \cup {"oncall"}
  /\ UNCHANGED <<skipSchedules, oncalls, uniqueUsers, users, stage, groupIds,
                 userNames, idx, name, members, slackId, slackUserIds, lookups, postOk,
                 updateOk, ugm>>

\* getOnCallUsers returns (lines 23-33), then the test of line 154.  An
\* absent oncalls field reads as the empty list (line 23).
QueryOk ==
  /\ pc = "start"
  /\ \E payload \in Payloads :
       LET m == UniqueUsers(payload, skipSchedules, Len(payload))
           us == MapValues(m)
       IN /\ oncalls' = payload
          /\ uniqueUsers' = m
          /\ users' = us
          /\ IF HasUsers(us)
             THEN pc' = "post" /\ UNCHANGED <<log, outcome>>
             ELSE /\ pc' = "done"
                  /\ outcome' = "resolved"
                  /\ log' = log \cup {"No on-call users found"}
  /\ calls' = Append(calls, Call("oncalls", <<>>))
  /\ UNCHANGED <<skipSchedules, stage, groupIds, userNames, idx, name, members, slackId,
                 slackUserIds, lookups, postOk, updateOk, failures, ugm, error>>

\* chat.postMessage (lines 156-166) answers; data.ok is not read.  Line 169
\* enters updateGroupMembers, which calls getCurrentGroupMembers (line 107).
\* The locals of getOnCallUsers are gone.
PostResp ==
  /\ pc = "post"
  /\ \E ok \in OkFlags : postOk' = ok
  /\ calls' = Append(calls, Call("chat.postMessage", users))
  /\ ugm' = "running"
  /\ stage' = 1
  /\ pc' = "list"
  /\ oncalls' = <<>>
  /\ uniqueUsers' = <<>>
  /\ UNCHANGED <<skipSchedules, users, groupIds, userNames, idx, name, members, slackId,
                 slackUserIds, lookups, updateOk, failures, error, log, outcome>>

\* a variant of PostFail that goes on to the group update
PostFailContinue ==
  /\ pc = "post"
  /\ calls' = Append(calls, Call("chat.postMessage", users))
  /\ failures' = failures \cup {"post"}
  /\ ugm' = "running"
  /\ stage' = 1
  /\ pc' = "list"
  /\ oncalls' = <<>>
  /\ uniqueUsers' = <<>>
  /\ UNCHANGED <<skipSchedules, users, groupIds, userNames, idx, name, members, slackId,
                 slackUserIds, lookups, postOk, updateOk, error, log, outcome>>

\* chat.postMessage rejects: control goes to the catch of line 174
PostFail ==
  /\ pc = "post"
  /\ \E e \in AxiosErrors : TopCatch(<<e>>)
  /\ calls' = Append(calls, Call("chat.postMessage", users))
  /\ failures' = failures \cup {"post"}
  /\ oncalls' = <<>>
  /\ uniqueUsers' = <<>>
  /\ UNCHANGED <<skipSchedules, users, stage, groupIds, userNames, idx,
                 name, members, slackId, slackUserIds, lookups, postOk, updateOk, ugm>>

\* --------------------------------------------------- getCurrentGroupMembers
StepOf(st) == IF st = 1 THEN "step1" ELSE "step5"

\* getCurrentGroupMembers returns `names` to line 107 (stage 1) or to line
\* 141 (stage 5).  The list is only logged (lines 108, 142).
ReturnMembers(names) ==
  /\ userNames' = <<>>
  /\ groupIds' = <<>>
  /\ stage' = 0
  /\ IF stage = 1
     THEN /\ idx' = 1
          /\ IF Len(users) = 0
             THEN AfterLoop(slackUserIds)
             ELSE pc' = "lookup" /\ UNCHANGED <<ugm, log, outcome>>
     ELSE /\ Finish("Successfully updated Slack group members")
          /\ UNCHANGED idx

\* usergroups.users.list rejects, or answers ok:false (line 52): the catch
\* of lines 72-75 returns []
ListFail ==
  /\ pc = "list"
  /\ calls' = Append(calls, Call("usergroups.users.list", <<>>))
  /\ failures' = failures \cup {StepOf(stage)}
  /\ ReturnMembers(<<>>)
  /\ UNCHANGED <<skipSchedules, oncalls, uniqueUsers, users, name, members, slackId,
                 slackUserIds, lookups, postOk, updateOk, error>>

\* usergroups.users.list answers ok:true with `ids` (an absent users field
\* reads as the empty list, line 55)
ListOk ==
  /\ pc = "list"
  /\ calls' = Append(calls, Call("usergroups.users.list", <<>>))
  /\ \E ids \in GroupLists :
       IF ids = <<>>
       THEN ReturnMembers(<<>>)
       ELSE /\ groupIds' = ids
            /\ userNames' = <<>>
            /\ pc' = "info"
            /\ UNCHANGED <<stage, idx, ugm, log, outcome>>
  /\ UNCHANGED <<skipSchedules, oncalls, uniqueUsers, users, name, members, slackId,
                 slackUserIds, lookups, postOk, updateOk, failures, error>>

\* the loop of lines 59-69 after one users.info answer
NextMember(names) ==
  IF Len(groupIds) = 1
  THEN ReturnMembers(names)
  ELSE /\ groupIds' = Tail(groupIds)
       /\ userNames' = names
       /\ UNCHANGED <<pc, stage, idx, ugm, log, outcome>>

\* users.info rejects: the catch of lines 72-75 returns []
InfoFail ==
  /\ pc = "info"
  /\ calls' = Append(calls, Call("users.info", <<>>))
  /\ failures' = failures \cup {StepOf(stage)}
  /\ ReturnMembers(<<>>)
  /\ UNCHANGED <<skipSchedules, oncalls, uniqueUsers, users, name, members, slackId,
                 slackUserIds, lookups, postOk, updateOk, error>>

\* users.info answers ok:false or without a user: the id is skipped (line 66)
InfoSkip ==
  /\ pc = "info"
  /\ calls' = Append(calls, Call("users.info", <<>>))
  /\ NextMember(userNames)
  /\ UNCHANGED <<skipSchedules, oncalls, uniqueUsers, users, name, members, slackId,
                 slackUserIds, lookups, postOk, updateOk, failures, error>>

\* users.info answers ok:true with a user: its real_name is pushed (line 67)
InfoOk ==
  /\ pc = "info"
  /\ calls' = Append(calls, Call("users.info", <<>>))
  /\ \E n \in Names : NextMember(Append(userNames, n))
  /\ UNCHANGED <<skipSchedules, oncalls, uniqueUsers, users, name, members, slackId,
                 slackUserIds, lookups, postOk, updateOk, failures, error>>

\* ------------------------------------------------------ updateGroupMembers
\* one pass of the loop of lines 113-121: getSlackUserIdByName(users[idx])
\* after a users.list response of kind `status`
Resolve(status, dir) ==
  LET id == GetSlackUserIdByName(status, dir, users[idx])
  IN /\ name' = users[idx]
     /\ slackId' = id
     /\ lookups' = Append(lookups, [name |-> users[idx], status |-> status, id |-> id])
     /\ calls' = Append(calls, Call("users.list", <<>>))
     /\ slackUserIds' = Push(slackUserIds, id)
     /\ idx' = idx + 1
     /\ IF idx + 1 > Len(users)
        THEN AfterLoop(slackUserIds')
        ELSE pc' = "lookup" /\ UNCHANGED <<ugm, log, outcome>>

\* users.list rejects: the catch of lines 97-100 returns null
LookupFail ==
  /\ pc = "lookup"
  /\ Resolve("fail", <<>>)
  /\ failures' = failures \cup {"step2"}
  /\ UNCHANGED <<skipSchedules, oncalls, uniqueUsers, users, stage, groupIds,
                 userNames, members, postOk, updateOk, error>>

\* users.list answers ok:false: line 87 throws, the catch returns null
LookupNotOk ==
  /\ pc = "lookup"
  /\ Resolve("notok", <<>>)
  /\ failures' = failures \cup {"step2"}
  /\ UNCHANGED <<skipSchedules, oncalls, uniqueUsers, users, stage, groupIds,
                 userNames, members, postOk, updateOk, error>>

\* users.list answers ok:true with its members (lines 90-96)
LookupOk ==
  /\ pc = "lookup"
  /\ \E dir \in Directories : Resolve("ok", dir)
  /\ UNCHANGED <<skipSchedules, oncalls, uniqueUsers, users, stage, groupIds,
                 userNames, members, postOk, updateOk, failures, error>>

\* usergroups.users.update (lines 129-137) answers; data.ok is not read.
\* Line 141 calls getCurrentGroupMembers again.
UpdateResp ==
  /\ pc = "update"
  /\ \E ok \in OkFlags : updateOk' = ok
  /\ calls' = Append(calls, Call("usergroups.users.update", Join(slackUserIds)))
  /\ stage' = 5
  /\ pc' = "list"
  /\ UNCHANGED <<skipSchedules, oncalls, uniqueUsers, users, groupIds,
                 userNames, idx, name, members, slackId, slackUserIds, lookups, postOk, failures,
                 ugm, error, log, outcome>>

\* a variant of UpdateFail that goes on to the second snapshot
UpdateFailContinue ==
  /\ pc = "update"
  /\ calls' = Append(calls, Call("usergroups.users.update", Join(slackUserIds)))
  /\ failures' = failures \cup {"step4"}
  /\ stage' = 5
  /\ pc' = "list"
  /\ UNCHANGED <<skipSchedules, oncalls, uniqueUsers, users, groupIds,
                 userNames, idx, name, members, slackId, slackUserIds, lookups, postOk, updateOk,
                 ugm, error, log, outcome>>

\* usergroups.users.update rejects: the catch of lines 145-147 wraps and
\* rethrows, the catch of line 174 logs
UpdateFail ==
  /\ pc = "update"
  /\ \E e \in AxiosErrors : TopCatch(<<"Failed to update group members", e>>)
  /\ calls' = Append(calls, Call("usergroups.users.update", Join(slackUserIds)))
  /\ failures' = failures \cup {"step4"}
  /\ ugm' = "thrown"
  /\ UNCHANGED <<skipSchedules, oncalls, uniqueUsers, users, stage, groupIds,
                 userNames, idx, name, members, slackId, slackUserIds, lookups, postOk, updateOk>>

Next ==
  \/ QueryFail
  \/ QueryOk
  \/ PostResp
  \/ PostFail
  \/ ListFail
  \/ ListOk
  \/ InfoFail
  \/ InfoSkip
  \/ InfoOk
  \/ LookupFail
  \/ LookupNotOk
  \/ LookupOk
  \/ UpdateResp
  \/ UpdateFail

Spec == Init /\ [][Next]_vars

\* ================================================================== claims
CallIdx(api) == {i \in 1..Len(calls) : calls[i].api = api}

Issued(api) == CallIdx(api) # {}

IsResolved(l) == l.id # NULL

\* the state right after getOnCallUsers returned: its payload, its Map and
\* its result are all in view
PayloadVisible ==
  /\ Len(calls) = 1
  /\ calls[1].api = "oncalls"
  /\ ~("oncall" \in failures)

\* record j of the payload has a user and a schedule, and the schedule is
\* not excluded
UsableAt(j) ==
  /\ oncalls[j].hasUser
  /\ oncalls[j].hasSchedule
  /\ ~(oncalls[j].sid \in skipSchedules)

\* C1: when every getSlackUserIdByName call of a run of updateGroupMembers
\* returned null (no entry matched, or the listing failed), the
\* usergroups.users.update call is never issued and the function returns
\* normally, without an error.
C1_NoUpdateWhenNothingResolved ==
  (\A i \in 1..Len(lookups) : lookups[i].id = NULL) =>
     /\ ~Issued("usergroups.users.update")
     /\ pc # "update"
     /\ (ugm \notin {"none", "running"} => ugm = "returned" /\ error = <<>>)

C1_Witness ==
  /\ pc = "done"
  /\ ugm = "returned"
  /\ Len(lookups) = 2
  /\ lookups[1].status = "notok"
  /\ lookups[2].status = "ok"
  /\ lookups[1].id = NULL
  /\ lookups[2].id = NULL
  /\ "No valid Slack user IDs found, skipping update" \in log

\* C2: chat.postMessage or usergroups.users.update is issued only if the
\* on-call query succeeded and produced at least one usable on-call user;
\* after a failed query, or one with no usable record, neither is issued.
C2_CallsOnlyWithUsers ==
  /\ (Issued("chat.postMessage") \/ Issued("usergroups.users.update")) =>
        /\ calls[1].api = "oncalls"
        /\ ~("oncall" \in failures)
        /\ Len(users) > 0
  /\ (pc = "post" => \E j \in 1..Len(oncalls) : UsableAt(j))
  /\ (PayloadVisible /\ ~(\E j \in 1..Len(oncalls) : UsableAt(j))) =>
        pc = "done" /\ outcome = "resolved"
  /\ ("oncall" \in failures) => Len(calls) = 1 /\ pc = "done"

C2_Witness ==
  /\ pc = "done"
  /\ PayloadVisible
  /\ Len(oncalls) = 2
  /\ oncalls[1].hasUser /\ oncalls[1].hasSchedule
  /\ oncalls[1].sid \in skipSchedules
  /\ ~oncalls[2].hasSchedule
  /\ "No on-call users found" \in log

\* C3: when at least one name resolves, the update call is issued with
\* exactly the identifiers of the names that resolved, in input order and
\* joined by commas; a name that does not resolve (also one whose listing
\* answered ok:false) is dropped, every name is looked up once and the
\* remaining names are still processed.
C3_UpdateArg ==
  LET resolved == SelectSeq(lookups, IsResolved)
      n == Len(resolved)
  IN /\ \A k \in CallIdx("usergroups.users.update") :
          LET arg == calls[k].arg
          IN /\ n >= 1
             /\ Len(arg) = 2 * n - 1
             /\ \A i \in 1..n :
                  /\ arg[2 * i - 1] = resolved[i].id
                  /\ i < n => arg[2 * i] = ","
             /\ Len(lookups) = Len(users)
             /\ Cardinality(CallIdx("users.list")) = Len(users)
     /\ \A i \in 1..Len(lookups) :
          /\ lookups[i].name = users[i]
          /\ lookups[i].status # "ok" => lookups[i].id = NULL
     /\ (ugm # "none" /\ Len(lookups) = Len(users) /\ n >= 1) =>
          pc = "update" \/ Issued("usergroups.users.update")

C3_Witness ==
  /\ Issued("usergroups.users.update")
  /\ Len(lookups) = 2
  /\ lookups[1].status = "notok"
  /\ lookups[2].id # NULL
  /\ \E k \in CallIdx("usergroups.users.update") : calls[k].arg = <<lookups[2].id>>

\* C4: getOnCallUsers includes a user exactly when some record with both a
\* user and a schedule names that user under a schedule that is not
\* excluded; records under excluded schedules contribute nothing, and a
\* user seen under an excluded and a non-excluded schedule is included.
C4_IncludedIffUsable ==
  PayloadVisible =>
     /\ \A u \in UserIds :
          (\E i \in 1..Len(uniqueUsers) : uniqueUsers[i].key = u)
            <=> (\E j \in 1..Len(oncalls) : UsableAt(j) /\ oncalls[j].uid = u)
     /\ Len(users) = Len(uniqueUsers)
     /\ \A i \in 1..Len(users) :
          \E j \in 1..Len(oncalls) :
             /\ UsableAt(j)
             /\ oncalls[j].uid = uniqueUsers[i].key
             /\ oncalls[j].summary = users[i]

C4_Witness ==
  /\ PayloadVisible
  /\ Len(oncalls) = 2
  /\ oncalls[1].hasUser /\ oncalls[2].hasUser
  /\ oncalls[1].uid = oncalls[2].uid
  /\ oncalls[1].hasSchedule /\ oncalls[1].sid \in skipSchedules
  /\ UsableAt(2)
  /\ users = <<oncalls[2].summary>>

\* C5: the non-excluded records sharing one user id produce exactly one
\* entry, whose value is the display name of the last such record in
\* payload order; the result has one entry per distinct included user id.
C5_LastNameWins ==
  PayloadVisible =>
     /\ \A i, k \in 1..Len(uniqueUsers) :
          uniqueUsers[i].key = uniqueUsers[k].key => i = k
     /\ Len(users) =
          Cardinality({u \in UserIds :
                         \E j \in 1..Len(oncalls) : UsableAt(j) /\ oncalls[j].uid = u})
     /\ \A i \in 1..Len(uniqueUsers) :
          \A j \in 1..Len(oncalls) :
             (/\ UsableAt(j)
              /\ oncalls[j].uid = uniqueUsers[i].key
              /\ \A l \in (j + 1)..Len(oncalls) :
                   ~(UsableAt(l) /\ oncalls[l].uid = oncalls[j].uid))
               => users[i] = oncalls[j].summary

C5_Witness ==
  /\ PayloadVisible
  /\ Len(oncalls) = 2
  /\ UsableAt(1) /\ UsableAt(2)
  /\ oncalls[1].uid = oncalls[2].uid
  /\ oncalls[1].summary # oncalls[2].summary
  /\ users = <<oncalls[2].summary>>

\* C6: updateSlackGroup is a final catch boundary: a failure of the on-call
\* query, of the notification post or of updateGroupMembers is logged and
\* not rethrown, and the run reaches normal completion (the promise never
\* rejects, and the run is never stuck before completion).
C6_NeverRejects ==
  /\ outcome # "rejected"
  /\ (pc = "done" <=> outcome = "resolved")
  /\ (pc # "done" => ENABLED Next)
  /\ (failures \cap {"oncall", "post", "step4"} # {} \/ ugm = "thrown") =>
        /\ pc = "done"
        /\ outcome = "resolved"
        /\ "Failed to update Slack group" \in log
        /\ error # <<>>
        /\ Head(error) = "Failed to update Slack group"

C6_Witness ==
  /\ pc = "done"
  /\ ugm = "thrown"
  /\ outcome = "resolved"
  /\ "Failed to update Slack group" \in log

\* C7 as stated: a call failure in step 1, step 2 or step 4 of
\* updateGroupMembers makes the function throw the wrapped error.
C7_AnyFailureFatal ==
  (failures \cap {"step1", "step2", "step4"} # {}) =>
     /\ ugm = "thrown"
     /\ Len(error) >= 2
     /\ error[2] = "Failed to update group members"

\* C7 amended: only a rejected usergroups.users.update call (step 4) is
\* fatal: the function throws 'Failed to update group members: ...' and
\* issues no later call.  A failure in step 1 or step 2 is caught where it
\* happens and the function goes on.
C7_OnlyStep4Fatal ==
  /\ ("step4" \in failures) =>
        /\ ugm = "thrown"
        /\ Len(error) = 3
        /\ error[2] = "Failed to update group members"
        /\ error[3] \in AxiosErrors
        /\ calls[Len(calls)].api = "usergroups.users.update"
        /\ ~("Successfully updated Slack group members" \in log)
  /\ (ugm = "thrown") => "step4" \in failures
  /\ (failures \cap {"step1", "step2"} # {} /\ ~("step4" \in failures)) =>
        ugm \in {"running", "returned"}

C7_Witness ==
  /\ {"step1", "step2", "step4"} \subseteq failures
  /\ ugm = "thrown"
  /\ pc = "done"

\* C8: every messaging response is checked for its ok flag; a
\* usergroups.users.update or chat.postMessage response with ok:false
\* never leads the run to its success outcome.
C8_OkFalseNeverSuccess ==
  (updateOk = "false" \/ postOk = "false") =>
     /\ ~("Successfully updated Slack group members" \in log)
     /\ ~("Slack user group update complete" \in log)

\* the place of a call in the pipeline; the membership snapshots have none
Rank(api) ==
  CASE api = "oncalls" -> 0
    [] api = "chat.postMessage" -> 1
    [] api = "users.list" -> 2
    [] api = "usergroups.users.update" -> 3
    [] OTHER -> 4

\* C10: the on-call query precedes chat.postMessage, which precedes every
\* directory lookup, which precede usergroups.users.update; at most one
\* post and one update are issued; a post that fails in transport leaves
\* no lookup and no update.
C10_CallOrder ==
  /\ \A i, j \in 1..Len(calls) :
       (i < j /\ Rank(calls[i].api) < 4 /\ Rank(calls[j].api) < 4) =>
          Rank(calls[i].api) <= Rank(calls[j].api)
  /\ Cardinality(CallIdx("oncalls")) <= 1
  /\ Cardinality(CallIdx("chat.postMessage")) <= 1
  /\ Cardinality(CallIdx("usergroups.users.update")) <= 1
  /\ Issued("chat.postMessage") => Issued("oncalls")
  /\ Issued("users.list") => Issued("chat.postMessage")
  /\ Issued("usergroups.users.update") => Issued("users.list")
  /\ ("post" \in failures) =>
        /\ ~Issued("users.list")
        /\ ~Issued("usergroups.users.update")
        /\ calls[Len(calls)].api = "chat.postMessage"
        /\ pc = "done"

C10_Witness ==
  /\ pc = "done"
  /\ Cardinality(CallIdx("users.list")) = 2
  /\ Issued("usergroups.users.update")
  /\ Issued("chat.postMessage")
  /\ "Successfully updated Slack group members" \in log

\* ------------------------------- getSlackUserIdByName, called on its own
\* the exported getSlackUserIdByName(name), lines 78-101, for every name
InitByName ==
  /\ pc = "byName"
  /\ skipSchedules \in SkipChoices
  /\ oncalls = <<>>
  /\ uniqueUsers = <<>>
  /\ users = <<>>
  /\ stage = 0
  /\ groupIds = <<>>
  /\ userNames = <<>>
  /\ idx = 0
  /\ name \in Names
  /\ members = <<>>
  /\ slackId = NULL
  /\ slackUserIds = <<>>
  /\ lookups = <<>>
  /\ calls = <<>>
  /\ postOk = "none"
  /\ updateOk = "none"
  /\ failures = {}
  /\ ugm = "none"
  /\ error = <<>>
  /\ log = {}
  /\ outcome = "pending"

\* the call returns after a users.list response of kind `status`
ByNameReturn(status, dir) ==
  LET id == GetSlackUserIdByName(status, dir, name)
  IN /\ pc' = "returned"
     /\ members' = dir
     /\ slackId' = id
     /\ lookups' = Append(lookups, [name |-> name, status |-> status, id |-> id])
     /\ calls' = Append(calls, Call("users.list", <<>>))
     /\ UNCHANGED <<skipSchedules, oncalls, uniqueUsers, users, stage,
                    groupIds, userNames, idx, name, slackUserIds, postOk,
                    updateOk, failures, ugm, error, log, outcome>>

ByNameFail == pc = "byName" /\ ByNameReturn("fail", <<>>)

ByNameNotOk == pc = "byName" /\ ByNameReturn("notok", <<>>)

ByNameOk == pc = "byName" /\ \E dir \in Directories : ByNameReturn("ok", dir)

NextByName == ByNameFail \/ ByNameNotOk \/ ByNameOk

SpecByName == InitByName /\ [][NextByName]_vars

\* entry i of the listing carries the name in one of its three fields
MatchAt(i) ==
  \/ members[i].real_name = name
  \/ members[i].name = name
  \/ members[i].profile_real_name = name

====
